---------------------------- MODULE Spec2Model ----------------------------
(***************************************************************************)
(* A model of the Descend LSP server (server/src/main.rs, the router       *)
(* generated by server/router_macro/src/lib.rs, server/src/structures.rs). *)
(*                                                                         *)
(* Text is a sequence of bytes, each byte written as a one-element string; *)
(* "C3" and "A9" are the two bytes of the UTF-8 encoding of U+00E9, so     *)
(* that the byte offsets the code uses and its character-boundary checks   *)
(* are part of the model.  A Rust panic is the value Panic: it ends the    *)
(* process.                                                                *)
(***************************************************************************)
EXTENDS Integers, Sequences, FiniteSets, TLC

VARIABLES
    overflow_checks, \* the build: TRUE = integer overflow panics (debug), FALSE = it wraps (release)
    doc,             \* TextDocument.lines of the document a method is called on, before the call
    call,            \* the TextDocument method called on it, with its arguments
    outcome,         \* what the call left: Ok(lines after the call) or Panic
    text_documents,  \* State.text_documents: the open documents' lines, by URI
    status,          \* the server process: "running", or "panicked" (it has ended)
    message,         \* the argument of the last get_response call: Ok(decoded content) or Err(text)
    response,        \* what that call returned: None or Some(ResponseMessage)
    turns,           \* how many times the loop of main has called get_response
    documents_before, \* State.text_documents as it was when that call began
    pc,              \* where the loop of main is: at its "read", or at the "write" of the response
    frame,           \* the framed message the stream was made of: its header lines and its content
    stdin,           \* the bytes of the stream RawMessage::read has not consumed
    read_result,     \* None, or Some(what RawMessage::read did): Panic, or Ok(Ok(RawMessage) or Err(text))
    stdout           \* the bytes RawMessage::write has written

buffer_vars == <<doc, call, outcome>>
server_vars == <<text_documents, status, message, response, turns,
                 documents_before, pc>>
framer_vars == <<frame, stdin, read_result, stdout>>
vars == <<overflow_checks, doc, call, outcome,
          text_documents, status, message, response, turns, documents_before, pc,
          frame, stdin, read_result, stdout>>

(***************************************************************************)
(* Results of operations that may panic.                                   *)
(***************************************************************************)
Ok(v) == [panic |-> FALSE, v |-> v]
Panic == [panic |-> TRUE]

\* Option<T>
None == [some |-> FALSE]
Some(v) == [some |-> TRUE, v |-> v]

\* Result<T, E> of the calls whose error is a value, not a panic.
Success(v) == [ok |-> TRUE, v |-> v]
Failure(e) == [ok |-> FALSE, e |-> e]

CR == "\r"
LF == "\n"
CRLF == <<CR, LF>>

(***************************************************************************)
(* Bounds of the text-buffer specification.                                *)
(***************************************************************************)
MaxLines == 3
MaxLineLen == 2

(***************************************************************************)
(* Rust's str and Vec primitives the buffer code calls.                    *)
(***************************************************************************)
\* A UTF-8 continuation byte (10xxxxxx).
IsContinuationByte(b) == b = "A9"

\* str::is_char_boundary(i), i a byte offset counted from 0.
is_char_boundary(s, i) ==
    \/ i = 0
    \/ i = Len(s)
    \/ i < Len(s) /\ ~IsContinuationByte(s[i + 1])

\* String::replace_range(a..b, "")
replace_range(s, a, b) ==
    IF is_char_boundary(s, a) /\ is_char_boundary(s, b) /\ a <= b
    THEN Ok(SubSeq(s, 1, a) \o SubSeq(s, b + 1, Len(s)))
    ELSE Panic

\* String::replace_range(a.., "")
replace_range_from(s, a) ==
    IF is_char_boundary(s, a) THEN Ok(SubSeq(s, 1, a)) ELSE Panic

\* &s[a..]
slice_from(s, a) ==
    IF is_char_boundary(s, a) THEN Ok(SubSeq(s, a + 1, Len(s))) ELSE Panic

\* String::insert_str(idx, t)
insert_str(s, idx, t) ==
    IF is_char_boundary(s, idx)
    THEN Ok(SubSeq(s, 1, idx) \o t \o SubSeq(s, idx + 1, Len(s)))
    ELSE Panic

\* Vec::remove(i), i counted from 0: the vector without element i.
vec_remove(v, i) == SubSeq(v, 1, i) \o SubSeq(v, i + 2, Len(v))

\* Vec::insert(i, e), i counted from 0.
vec_insert(v, i, e) == SubSeq(v, 1, i) \o <<e>> \o SubSeq(v, i + 1, Len(v))

\* str::split("\r\n"): the segments between the non-overlapping occurrences
\* of "\r\n", found from the left.
RECURSIVE split_from(_, _, _, _)
split_from(text, i, done, cur) ==
    IF i > Len(text) THEN Append(done, cur)
    ELSE IF text[i] = CR /\ i < Len(text) /\ text[i + 1] = LF
         THEN split_from(text, i + 2, Append(done, cur), <<>>)
         ELSE split_from(text, i + 1, done, Append(cur, text[i]))

\* A slip: the lines as str::lines gives them, none for the empty text.
split_lines(text) ==
    IF text = <<>> THEN <<>> ELSE split_from(text, 1, <<>>, <<>>)

split(text) == split_from(text, 1, <<>>, <<>>)

(***************************************************************************)
(* TextDocument::erase                                                     *)
(***************************************************************************)
\* (range.end.line - range.start.line + 1) as usize, in u32 arithmetic.  A
\* wrapped difference other than 2^32 - 1 is far above any line count and is
\* written as the largest integer TLC holds.
erase_c_total(range, checks) ==
    IF range.end.line >= range.start.line
    THEN Ok(range.end.line - range.start.line + 1)
    ELSE IF checks THEN Panic
         ELSE IF range.start.line - range.end.line = 1 THEN Ok(0)
              ELSE Ok(2147483647)

\* One turn of the while loop, for counter c.
erase_turn(ls, range, c, c_total) ==
    LET first == c = 0
        last == c = c_total - 1
        sl == range.start.line
    IN  IF first /\ last
        THEN IF sl >= Len(ls) THEN Panic
             ELSE LET r == replace_range(ls[sl + 1], range.start.character,
                                         range.end.character)
                  IN  IF r.panic THEN Panic ELSE Ok([ls EXCEPT ![sl + 1] = r.v])
        ELSE IF first
        THEN IF sl >= Len(ls) THEN Panic
             ELSE LET r == replace_range_from(ls[sl + 1], range.start.character)
                  IN  IF r.panic THEN Panic ELSE Ok([ls EXCEPT ![sl + 1] = r.v])
        ELSE IF ~first /\ ~last
        THEN IF sl + 1 >= Len(ls) THEN Panic
             ELSE Ok(vec_remove(ls, sl + 1))
        ELSE \* last
             IF sl + 1 >= Len(ls) THEN Panic
             ELSE LET line == ls[sl + 2]
                      rest == vec_remove(ls, sl + 1)
                      tail == slice_from(line, range.end.character)
                  IN  IF tail.panic THEN Panic
                      ELSE Ok([rest EXCEPT ![sl + 1] = @ \o tail.v])

RECURSIVE erase_loop(_, _, _, _)
erase_loop(ls, range, c, c_total) ==
    IF c >= c_total THEN Ok(ls)
    ELSE LET r == erase_turn(ls, range, c, c_total)
         IN  IF r.panic THEN Panic ELSE erase_loop(r.v, range, c + 1, c_total)

erase(ls, range, checks) ==
    LET n == erase_c_total(range, checks)
    IN  IF n.panic THEN Panic ELSE erase_loop(ls, range, 0, n.v)

(***************************************************************************)
(* TextDocument::insert                                                    *)
(***************************************************************************)
\* One turn of the for loop, for segment text_lines[i + 1].
insert_turn(ls, position, text_lines, i) ==
    LET first == i = 0
        last == i = Len(text_lines) - 1
        pl == position.line
        text_line == text_lines[i + 1]
    IN  IF first /\ last
        THEN IF pl >= Len(ls) THEN Panic
             ELSE LET r == insert_str(ls[pl + 1], position.character, text_line)
                  IN  IF r.panic THEN Panic ELSE Ok([ls EXCEPT ![pl + 1] = r.v])
        ELSE IF first
        THEN IF pl >= Len(ls) THEN Panic
             ELSE LET line == ls[pl + 1]
                      rest == vec_remove(ls, pl)
                  IN  IF ~is_char_boundary(line, position.character) THEN Panic
                      ELSE LET line_head == SubSeq(line, 1, position.character)
                               line_tail == SubSeq(line, position.character + 1,
                                                   Len(line))
                           IN  Ok(vec_insert(
                                   vec_insert(rest, pl, line_head \o text_line),
                                   pl + 1, line_tail))
        ELSE IF ~first /\ ~last
        THEN IF pl + i > Len(ls) THEN Panic
             ELSE Ok(vec_insert(ls, pl + i, text_line))
        ELSE \* last
             IF pl + i >= Len(ls) THEN Panic
             ELSE LET r == insert_str(ls[pl + i + 1], 0, text_line)
                  IN  IF r.panic THEN Panic ELSE Ok([ls EXCEPT ![pl + i + 1] = r.v])

RECURSIVE insert_loop(_, _, _, _)
insert_loop(ls, position, text_lines, i) ==
    IF i >= Len(text_lines) THEN Ok(ls)
    ELSE LET r == insert_turn(ls, position, text_lines, i)
         IN  IF r.panic THEN Panic
             ELSE insert_loop(r.v, position, text_lines, i + 1)

insert(ls, position, text) == insert_loop(ls, position, split(text), 0)

(***************************************************************************)
(* TextDocument::edit                                                      *)
(***************************************************************************)
\* A slip: the text inserted at the end of the range, a position of the
\* buffer as it was before the erase.
edit_insert_at_end(ls, range, text, checks) ==
    LET e == erase(ls, range, checks)
    IN  IF e.panic THEN Panic ELSE insert(e.v, range.end, text)

\* The second statement of edit, on what the erase left.
edit_insert(erased, position, text) ==
    IF erased.panic THEN Panic ELSE insert(erased.v, position, text)

edit(ls, range, text, checks) ==
    edit_insert(erase(ls, range, checks), range.start, text)

(***************************************************************************)
(* The text-buffer specification: one call of erase, insert or edit on a   *)
(* document, the document and the arguments drawn from bounded sets.       *)
(***************************************************************************)
Glyphs == <<"0", "1", "2", "3", "4", "5", "6", "7", "8", "9",
            "a", "b", "c", "d", "e", "f">>

Shapes == UNION {[1..n -> 0..MaxLineLen] : n \in 1..MaxLines}

RECURSIVE ShapeOffset(_, _)
ShapeOffset(shape, j) == IF j = 1 THEN 0 ELSE ShapeOffset(shape, j - 1) + shape[j - 1]

\* The document of a shape (its line lengths) whose bytes are all different,
\* as in test_erase: what a call moves, drops or keeps shows in the result.
ShapeDoc(shape) ==
    [j \in 1..Len(shape) |->
        SubSeq(Glyphs, ShapeOffset(shape, j) + 1, ShapeOffset(shape, j) + shape[j])]

\* Documents with a two-byte character, with lone "\r" and "\n", and with a
\* line holding "\r\n".
SpecialDocs ==
    { << <<"C3", "A9", "a">> >>,
      << <<"a", "C3", "A9">>, <<"C3", "A9">> >>,
      << <<"a", CR>>, <<LF, "b">> >>,
      << <<"a", CR, LF, "b">>, <<>> >> }

Docs == {ShapeDoc(shape) : shape \in Shapes} \cup SpecialDocs

Positions == [line : 0..MaxLines, character : 0..(MaxLineLen + 1)]
Ranges == [start : Positions, end : Positions]

Texts ==
    { <<>>, <<"x">>, <<"x", "y">>, <<"C3", "A9">>,
      <<CR>>, <<LF>>, <<"x", LF, "y">>,
      CRLF, <<"x">> \o CRLF, CRLF \o <<"y">>, <<"x">> \o CRLF \o <<"y">>,
      <<"x">> \o CRLF \o <<"y">> \o CRLF \o <<"z">>,
      <<"w", "x">> \o CRLF \o CRLF \o <<"y", "z">>,
      <<"p">> \o CRLF \o <<"q">> \o CRLF \o <<"r">> \o CRLF \o <<"s">>,
      CRLF \o CRLF \o CRLF }

\* Replacement texts of edit: none, one segment, two, and three segments.
EditTexts ==
    { <<>>, <<"x">>, <<LF>>, <<"x">> \o CRLF \o <<"y">>, CRLF,
      <<"x">> \o CRLF \o <<"y">> \o CRLF \o <<"z">> }

NoCall == [op |-> "none"]

NoDocuments == [uri \in {} |-> <<>>]
NoMessage == Failure("")

\* The server before the loop of main has read anything.
ServerIdle ==
    /\ text_documents = NoDocuments
    /\ status = "running"
    /\ message = NoMessage
    /\ response = None
    /\ turns = 0
    /\ documents_before = NoDocuments
    /\ pc = "read"

\* What the buffer and the server specifications leave alone: no stream.
NoFrame == [blank |-> 0, eol |-> <<>>, lines |-> <<>>, content |-> <<>>]
FramerIdle ==
    /\ frame = NoFrame
    /\ stdin = <<>>
    /\ read_result = None
    /\ stdout = <<>>

BufferInit ==
    /\ overflow_checks \in BOOLEAN
    /\ doc \in Docs
    /\ call = NoCall
    /\ outcome = Ok(doc)
    /\ ServerIdle
    /\ FramerIdle

Erase ==
    /\ call = NoCall
    /\ \E range \in Ranges :
          /\ call' = [op |-> "erase", range |-> range]
          /\ outcome' = erase(doc, range, overflow_checks)
    /\ UNCHANGED <<overflow_checks, doc>>
    /\ UNCHANGED server_vars
    /\ UNCHANGED framer_vars

Insert ==
    /\ call = NoCall
    /\ \E position \in Positions, text \in Texts :
          /\ call' = [op |-> "insert", position |-> position, text |-> text]
          /\ outcome' = insert(doc, position, text)
    /\ UNCHANGED <<overflow_checks, doc>>
    /\ UNCHANGED server_vars
    /\ UNCHANGED framer_vars

Edit ==
    /\ call = NoCall
    /\ \E range \in Ranges, text \in EditTexts :
          /\ call' = [op |-> "edit", range |-> range, text |-> text]
          /\ outcome' = edit(doc, range, text, overflow_checks)
    /\ UNCHANGED <<overflow_checks, doc>>
    /\ UNCHANGED server_vars
    /\ UNCHANGED framer_vars

BufferNext == Erase \/ Insert \/ Edit

SpecBuffer == BufferInit /\ [][BufferNext]_vars

(***************************************************************************)
(* JSON values (serde_json::Value).  A string is an atom (a method name, a *)
(* URI, a version) or, for document text, a sequence of bytes.             *)
(***************************************************************************)
\* Each kind of value is a record with one field, named after the kind.
JNull == [null |-> TRUE]
JBool(b) == [bool |-> b]
JNum(n) == [num |-> n]
JStr(s) == [str |-> s]
JArr(a) == [arr |-> a]
JObj(o) == [obj |-> o]
\* A content that is not JSON text.
NotJson == [invalid |-> TRUE]

IsJNull(j) == "null" \in DOMAIN j
IsJNum(j) == "num" \in DOMAIN j
IsJStr(j) == "str" \in DOMAIN j
IsJArr(j) == "arr" \in DOMAIN j
IsJObj(j) == "obj" \in DOMAIN j

Has(o, f) == f \in DOMAIN o
IsStr(o, f) == Has(o, f) /\ IsJStr(o[f])
\* A field of type u32.
IsU32(o, f) == Has(o, f) /\ IsJNum(o[f]) /\ o[f].num >= 0
\* A field of type i32.
IsI32(o, f) == Has(o, f) /\ IsJNum(o[f])
\* A field of type Option<String>: absent, null or a string.
IsOptStr(o, f) == Has(o, f) => (IsJNull(o[f]) \/ IsJStr(o[f]))

(***************************************************************************)
(* structures.rs: Id, an untagged enum.  Deserializing tries u64, then     *)
(* String, then any value; serializing writes the value held.              *)
(***************************************************************************)
AsInt(n) == [AsInt |-> n]
AsString(s) == [AsString |-> s]
AsJson(j) == [AsJson |-> j]

deserialize_Id(j) ==
    IF IsJNum(j) /\ j.num >= 0 THEN AsInt(j.num)
    ELSE IF IsJStr(j) THEN AsString(j.str)
    ELSE AsJson(j)

serialize_Id(id) ==
    IF "AsInt" \in DOMAIN id THEN JNum(id.AsInt)
    ELSE IF "AsString" \in DOMAIN id THEN JStr(id.AsString)
    ELSE id.AsJson

(***************************************************************************)
(* ResponseError and its codes; ResponseMessage::error.                    *)
(***************************************************************************)
METHOD_NOT_FOUND == -32601
INTERNAL_ERROR == -32603

ResponseError(code, text) == [code |-> code, message |-> text, data |-> None]

ResponseMessage_error(id, code, text) ==
    [jsonrpc |-> "2.0", id |-> id, result |-> None,
     error |-> Some(ResponseError(code, text))]

(***************************************************************************)
(* serde's derived Deserialize of a struct takes the value in two forms:   *)
(* an object, where a field of type Option may be absent and a field the   *)
(* struct does not have is ignored, and an array of exactly the fields of  *)
(* the struct, in the order of their declaration.                          *)
(***************************************************************************)
\* The array of the fields as the object it stands for; any other value as
\* it is.
struct_of(fields, j) ==
    IF IsJArr(j) /\ Len(j.arr) = Len(fields)
    THEN JObj([f \in {fields[i] : i \in 1..Len(fields)} |->
                 j.arr[CHOOSE i \in 1..Len(fields) : fields[i] = f]])
    ELSE j

\* The value has one of the two forms of a struct with these fields.
IsStruct(fields, j) == IsJObj(struct_of(fields, j))

\* The fields of the structs, in the order of their declaration.
RequestMessageFields == <<"jsonrpc", "id", "method", "params">>
ResponseMessageFields == <<"jsonrpc", "id", "result", "error">>
NotificationMessageFields == <<"jsonrpc", "method", "params">>
ResponseErrorFields == <<"code", "message", "data">>

(***************************************************************************)
(* Message::from_raw: serde's untagged enum takes the first variant, in    *)
(* the order Request, Response, Notification, that the value fits.  A      *)
(* field of type Value or Id must be present; an Option may be absent.     *)
(***************************************************************************)
FitsRequest(o) ==
    IsStr(o, "jsonrpc") /\ Has(o, "id") /\ IsStr(o, "method") /\ Has(o, "params")

FitsResponseError(j) ==
    \/ IsJNull(j)
    \/ /\ IsStruct(ResponseErrorFields, j)
       /\ IsI32(struct_of(ResponseErrorFields, j).obj, "code")
       /\ IsStr(struct_of(ResponseErrorFields, j).obj, "message")

FitsResponse(o) ==
    /\ IsStr(o, "jsonrpc")
    /\ Has(o, "id")
    /\ (Has(o, "error") => FitsResponseError(o.error))

FitsNotification(o) ==
    IsStr(o, "jsonrpc") /\ IsStr(o, "method") /\ Has(o, "params")

\* The value is taken as the variant: it has a form of the struct, and its
\* fields fit.
IsRequest(j) ==
    IsStruct(RequestMessageFields, j)
    /\ FitsRequest(struct_of(RequestMessageFields, j).obj)

IsResponse(j) ==
    IsStruct(ResponseMessageFields, j)
    /\ FitsResponse(struct_of(ResponseMessageFields, j).obj)

IsNotification(j) ==
    IsStruct(NotificationMessageFields, j)
    /\ FitsNotification(struct_of(NotificationMessageFields, j).obj)

OptionOf(o, f) == IF Has(o, f) /\ ~IsJNull(o[f]) THEN Some(o[f]) ELSE None

\* The variants, made of the fields of a value that fits.
RequestMessage(o) ==
    [kind |-> "Request", jsonrpc |-> o.jsonrpc.str, id |-> deserialize_Id(o.id),
     method |-> o.method.str, params |-> o.params]

ResponseMessage(o) ==
    [kind |-> "Response", jsonrpc |-> o.jsonrpc.str, id |-> deserialize_Id(o.id),
     result |-> OptionOf(o, "result"), error |-> OptionOf(o, "error")]

NotificationMessage(o) ==
    [kind |-> "Notification", jsonrpc |-> o.jsonrpc.str, method |-> o.method.str,
     params |-> o.params]

\* serde_json::from_str fails on a content that is no JSON text with its
\* syntax error, and on JSON that fits no variant with the error of the
\* untagged enum.
from_raw(content) ==
    IF content = NotJson THEN Failure("expected value at line 1 column 1")
    ELSE IF IsRequest(content)
    THEN Success(RequestMessage(struct_of(RequestMessageFields, content).obj))
    ELSE IF IsResponse(content)
    THEN Success(ResponseMessage(struct_of(ResponseMessageFields, content).obj))
    ELSE IF IsNotification(content)
    THEN Success(NotificationMessage(
             struct_of(NotificationMessageFields, content).obj))
    ELSE Failure("data did not match any variant of untagged enum Message")

(***************************************************************************)
(* The Params struct the router macro generates for each routed function:  *)
(* whether serde_json::from_value takes the params, and the arguments.     *)
(***************************************************************************)
\* The fields of the structs of structures.rs, in the order of their
\* declaration, under the names serde gives them (camelCase).
PositionFields == <<"line", "character">>
RangeFields == <<"start", "end">>
TextDocumentIdentifierFields == <<"uri">>
TextDocumentItemFields == <<"uri", "languageId", "version", "text">>
TextDocumentContentChangeEventFields == <<"range", "text">>
ClientInfoFields == <<"name", "version">>

\* Each struct as the object of its fields, whichever form the value has.
Position_of(j) == struct_of(PositionFields, j)
Range_of(j) == struct_of(RangeFields, j)
TextDocumentIdentifier_of(j) == struct_of(TextDocumentIdentifierFields, j)
TextDocumentItem_of(j) == struct_of(TextDocumentItemFields, j)
TextDocumentContentChangeEvent_of(j) ==
    struct_of(TextDocumentContentChangeEventFields, j)
ClientInfo_of(j) == struct_of(ClientInfoFields, j)

FitsPosition(j) ==
    /\ IsJObj(Position_of(j))
    /\ IsU32(Position_of(j).obj, "line")
    /\ IsU32(Position_of(j).obj, "character")

FitsRange(j) ==
    /\ IsJObj(Range_of(j))
    /\ Has(Range_of(j).obj, "start") /\ FitsPosition(Range_of(j).obj.start)
    /\ Has(Range_of(j).obj, "end") /\ FitsPosition(Range_of(j).obj.end)

FitsTextDocumentIdentifier(j) ==
    /\ IsJObj(TextDocumentIdentifier_of(j))
    /\ IsStr(TextDocumentIdentifier_of(j).obj, "uri")

FitsTextDocumentItem(j) ==
    /\ IsJObj(TextDocumentItem_of(j))
    /\ IsStr(TextDocumentItem_of(j).obj, "uri")
    /\ IsStr(TextDocumentItem_of(j).obj, "languageId")
    /\ IsI32(TextDocumentItem_of(j).obj, "version")
    /\ IsStr(TextDocumentItem_of(j).obj, "text")

FitsContentChange(j) ==
    /\ IsJObj(TextDocumentContentChangeEvent_of(j))
    /\ Has(TextDocumentContentChangeEvent_of(j).obj, "range")
    /\ FitsRange(TextDocumentContentChangeEvent_of(j).obj.range)
    /\ IsStr(TextDocumentContentChangeEvent_of(j).obj, "text")

FitsClientInfo(j) ==
    /\ IsJObj(ClientInfo_of(j))
    /\ IsStr(ClientInfo_of(j).obj, "name")
    /\ IsOptStr(ClientInfo_of(j).obj, "version")

PositionOf(j) ==
    [line |-> Position_of(j).obj.line.num,
     character |-> Position_of(j).obj.character.num]
RangeOf(j) ==
    [start |-> PositionOf(Range_of(j).obj.start),
     end |-> PositionOf(Range_of(j).obj.end)]

\* The fields of the Params struct of each routed function: its arguments,
\* in their order.
ParamsFields(method) ==
    CASE method = "initialize" -> <<"clientInfo", "locale">>
      [] method = "initialized" -> <<>>
      [] method = "textDocument/didOpen" -> <<"textDocument">>
      [] method = "textDocument/didChange" -> <<"textDocument", "contentChanges">>
      [] method = "textDocument/didClose" -> <<"textDocument">>
      [] method = "textDocument/hover" -> <<"textDocument", "position">>

\* The fields of the Params struct fit their types.
FitsParamsFields(method, p) ==
    CASE method = "initialize" ->
           /\ ((Has(p, "clientInfo") /\ ~IsJNull(p.clientInfo))
                 => FitsClientInfo(p.clientInfo))
           /\ IsOptStr(p, "locale")
      [] method = "initialized" -> TRUE
      [] method = "textDocument/didOpen" ->
           Has(p, "textDocument") /\ FitsTextDocumentItem(p.textDocument)
      [] method = "textDocument/didChange" ->
           /\ Has(p, "textDocument")
           /\ FitsTextDocumentIdentifier(p.textDocument)
           /\ Has(p, "contentChanges")
           /\ IsJArr(p.contentChanges)
           /\ \A i \in 1..Len(p.contentChanges.arr) :
                 FitsContentChange(p.contentChanges.arr[i])
      [] method = "textDocument/didClose" ->
           Has(p, "textDocument") /\ FitsTextDocumentIdentifier(p.textDocument)
      [] method = "textDocument/hover" ->
           /\ Has(p, "textDocument")
           /\ FitsTextDocumentIdentifier(p.textDocument)
           /\ Has(p, "position") /\ FitsPosition(p.position)

\* Params of each routed function, by its method: the params have a form of
\* the struct, an object or the array of the arguments, and the fields fit.
FitsParams(method, params) ==
    /\ IsStruct(ParamsFields(method), params)
    /\ FitsParamsFields(method, struct_of(ParamsFields(method), params).obj)

\* The arguments of the routed function, out of params that fit: its structs
\* as objects.
ArgumentsOf(method, p) ==
    CASE method = "textDocument/didOpen" ->
           [textDocument |-> TextDocumentItem_of(p.textDocument)]
      [] method = "textDocument/didChange" ->
           [textDocument |-> TextDocumentIdentifier_of(p.textDocument),
            contentChanges |->
              JArr([i \in 1..Len(p.contentChanges.arr) |->
                      TextDocumentContentChangeEvent_of(p.contentChanges.arr[i])])]
      [] method = "textDocument/didClose" ->
           [textDocument |-> TextDocumentIdentifier_of(p.textDocument)]
      [] method = "textDocument/hover" ->
           [textDocument |-> TextDocumentIdentifier_of(p.textDocument),
            position |-> p.position]
      [] OTHER -> p

from_value_Params(method, params) ==
    ArgumentsOf(method, struct_of(ParamsFields(method), params).obj)

(***************************************************************************)
(* The routed functions of trait Router.  Each gives Ok of the documents   *)
(* it leaves (and, for a request, its Result), or Panic.                   *)
(***************************************************************************)
InitializeResult ==
    JObj([capabilities |->
            JObj([textDocumentSync |->
                    JObj([openClose |-> JBool(TRUE), change |-> JNum(2)]),
                  hoverProvider |-> JBool(TRUE)]),
          serverInfo |->
            JObj([name |-> JStr("Descend LSP"), version |-> JStr("1.0.0")])])

initialize(docs) == Ok([docs |-> docs, result |-> Success(InitializeResult)])

initialized(docs) == Ok([docs |-> docs])

\* HashMap::insert
map_insert(docs, uri, ls) ==
    [u \in DOMAIN docs \cup {uri} |-> IF u = uri THEN ls ELSE docs[u]]

\* A slip: HashMap::clear.
map_remove_all(docs, uri) == [u \in {} |-> docs[u]]

\* HashMap::remove
map_remove(docs, uri) == [u \in DOMAIN docs \ {uri} |-> docs[u]]

\* A slip: a document that is open already keeps its buffer.
did_open_if_absent(docs, text_document) ==
    IF text_document.uri.str \in DOMAIN docs THEN Ok([docs |-> docs])
    ELSE Ok([docs |-> map_insert(docs, text_document.uri.str,
                                 split(text_document.text.str))])

did_open_text_document(docs, text_document) ==
    Ok([docs |-> map_insert(docs, text_document.uri.str, split(text_document.text.str))])

\* A slip: the changes applied from the last to the first.
RECURSIVE did_change_loop_reversed(_, _, _, _, _)
did_change_loop_reversed(docs, uri, content_changes, i, checks) ==
    IF i > Len(content_changes) THEN Ok([docs |-> docs])
    ELSE IF uri \notin DOMAIN docs THEN Panic
    ELSE LET content_change == content_changes[Len(content_changes) + 1 - i]
             e == edit(docs[uri], RangeOf(content_change.obj.range),
                       content_change.obj.text.str, checks)
         IN  IF e.panic THEN Panic
             ELSE did_change_loop_reversed([docs EXCEPT ![uri] = e.v], uri,
                                           content_changes, i + 1, checks)

RECURSIVE did_change_loop(_, _, _, _, _)
\* The turns after a turn of the loop whose edit left edited.
did_change_next(docs, uri, content_changes, i, checks, edited) ==
    IF edited.panic THEN Panic
    ELSE did_change_loop([docs EXCEPT ![uri] = edited.v], uri,
                         content_changes, i + 1, checks)

\* The for loop over the changes, from the i-th on: the lookup of the
\* document (expect: an unknown URI panics) and the edit.
did_change_loop(docs, uri, content_changes, i, checks) ==
    IF i > Len(content_changes) THEN Ok([docs |-> docs])
    ELSE IF uri \notin DOMAIN docs THEN Panic
    ELSE did_change_next(docs, uri, content_changes, i, checks,
             edit(docs[uri], RangeOf(content_changes[i].obj.range),
                  content_changes[i].obj.text.str, checks))

did_change_text_document(docs, text_document, content_changes, checks) ==
    did_change_loop(docs, text_document.uri.str, content_changes, 1, checks)

did_close_text_document(docs, text_document) ==
    Ok([docs |-> map_remove(docs, text_document.uri.str)])

\* text_document.lines[line][character..]
hover_value(ls, position) ==
    IF position.line >= Len(ls) THEN Panic
    ELSE LET line == ls[position.line + 1]
         IN  IF is_char_boundary(line, position.character)
             THEN Ok(SubSeq(line, position.character + 1, Len(line)))
             ELSE Panic

hover(docs, text_document, position) ==
    IF text_document.uri.str \notin DOMAIN docs THEN Panic
    ELSE LET value == hover_value(docs[text_document.uri.str], position)
         IN  IF value.panic THEN Panic
             ELSE Ok([docs |-> docs,
                      result |-> Success(JObj([contents |->
                          JObj([kind |-> JStr("plaintext"),
                                value |-> JStr(value.v)])]))])

(***************************************************************************)
(* route_msg, as the router macro generates it from trait Router.          *)
(***************************************************************************)
\* The functions with a return type are routed as requests, the others as
\* notifications.
RequestMethods == {"initialize", "textDocument/hover"}
NotificationMethods ==
    {"initialized", "textDocument/didOpen", "textDocument/didChange",
     "textDocument/didClose"}

\* The call of the routed function, once the params are deserialized.
call_routed(docs, method, p, checks) ==
    CASE method = "initialize" -> initialize(docs)
      [] method = "textDocument/hover" ->
            hover(docs, p.textDocument.obj, PositionOf(p.position))
      [] method = "initialized" -> initialized(docs)
      [] method = "textDocument/didOpen" ->
            did_open_text_document(docs, p.textDocument.obj)
      [] method = "textDocument/didChange" ->
            did_change_text_document(docs, p.textDocument.obj,
                                     p.contentChanges.arr, checks)
      [] method = "textDocument/didClose" ->
            did_close_text_document(docs, p.textDocument.obj)

\* A match case of a request: deserialize (a failure panics: expect), call,
\* wrap the Result.
\* match (result): the response made of what the routed function returned.
request_match_result(request, r) ==
    IF r.panic THEN Panic
    ELSE Ok([docs |-> r.v.docs,
             response |->
               IF r.v.result.ok
               THEN Some([jsonrpc |-> request.jsonrpc, id |-> request.id,
                          result |-> Some(r.v.result.v), error |-> None])
               ELSE Some([jsonrpc |-> request.jsonrpc, id |-> request.id,
                          result |-> None, error |-> Some(r.v.result.e)])])

request_match_case(docs, request, checks) ==
    IF ~FitsParams(request.method, request.params) THEN Panic
    ELSE request_match_result(request,
             call_routed(docs, request.method,
                         from_value_Params(request.method, request.params),
                         checks))

\* A slip: the case of a request generated for a notification.
notification_match_case_replies(docs, notification, checks) ==
    IF ~FitsParams(notification.method, notification.params) THEN Panic
    ELSE LET r == call_routed(docs, notification.method,
                              from_value_Params(notification.method,
                                                notification.params),
                              checks)
         IN  IF r.panic THEN Panic
             ELSE Ok([docs |-> r.v.docs,
                      response |-> Some([jsonrpc |-> notification.jsonrpc,
                                         id |-> AsJson(JNull),
                                         result |-> Some(JNull), error |-> None])])

\* A match case of a notification: deserialize, call, return None.
\* return None, after the routed function.
notification_match_return(r) ==
    IF r.panic THEN Panic ELSE Ok([docs |-> r.v.docs, response |-> None])

notification_match_case(docs, notification, checks) ==
    IF ~FitsParams(notification.method, notification.params) THEN Panic
    ELSE notification_match_return(
             call_routed(docs, notification.method,
                         from_value_Params(notification.method,
                                           notification.params),
                         checks))

\* A slip: the default case of a notification used for a request.
unhandled_request_silent(docs, request) == Ok([docs |-> docs, response |-> None])

\* The default case of a request.
unhandled_request(docs, request) ==
    Ok([docs |-> docs,
        response |->
          Some([jsonrpc |-> request.jsonrpc, id |-> request.id, result |-> None,
                error |-> Some(ResponseError(METHOD_NOT_FOUND,
                    "Unhandled request " \o request.method \o "!"))])])

\* A slip: a Response is answered with an error.
route_msg_answers_response(docs, m, checks) ==
    IF m.kind = "Request"
    THEN IF m.method \in RequestMethods
         THEN request_match_case(docs, m, checks)
         ELSE unhandled_request(docs, m)
    ELSE IF m.kind = "Notification"
    THEN IF m.method \in NotificationMethods
         THEN notification_match_case(docs, m, checks)
         ELSE Ok([docs |-> docs, response |-> None])
    ELSE Ok([docs |-> docs,
             response |-> Some(ResponseMessage_error(m.id, METHOD_NOT_FOUND,
                                                     "Unhandled response!"))])

route_msg(docs, m, checks) ==
    IF m.kind = "Request"
    THEN IF m.method \in RequestMethods
         THEN request_match_case(docs, m, checks)
         ELSE unhandled_request(docs, m)
    ELSE IF m.kind = "Notification"
    THEN IF m.method \in NotificationMethods
         THEN notification_match_case(docs, m, checks)
         ELSE Ok([docs |-> docs, response |-> None])
    ELSE Ok([docs |-> docs, response |-> None])

(***************************************************************************)
(* get_response                                                            *)
(***************************************************************************)
get_response(docs, raw, checks) ==
    IF raw.ok
    THEN LET m == from_raw(raw.v)
         IN  IF ~m.ok THEN Panic ELSE route_msg(docs, m.v, checks)
    ELSE Ok([docs |-> docs,
             response |-> Some(ResponseMessage_error(
                 AsJson(JNull), INTERNAL_ERROR, raw.e))])

(***************************************************************************)
(* The framer: RawMessage::read and RawMessage::write over a stream of     *)
(* bytes.                                                                  *)
(***************************************************************************)
TAB == "\t"
\* The form feed, U+000C.
FF == "\f"

\* char::is_whitespace, on the bytes of the model: the characters of
\* White_Space that a string of the model can hold.  (U+000B, U+0085, U+00A0
\* and the others are not among its bytes.)
IsWhitespace(b) == b \in {" ", TAB, LF, FF, CR}

RECURSIVE trim_start(_)
trim_start(s) ==
    IF s # <<>> /\ IsWhitespace(s[1]) THEN trim_start(Tail(s)) ELSE s

RECURSIVE trim_end(_)
trim_end(s) ==
    IF s # <<>> /\ IsWhitespace(s[Len(s)])
    THEN trim_end(SubSeq(s, 1, Len(s) - 1))
    ELSE s

\* str::trim
trim(s) == trim_end(trim_start(s))

\* The bytes are valid UTF-8: the lead byte "C3" has its continuation byte
\* "A9", and "A9" only follows "C3"; every other byte is ASCII.
from_utf8_ok(bytes) ==
    \A i \in 1..Len(bytes) :
        /\ bytes[i] = "C3" => (i < Len(bytes) /\ bytes[i + 1] = "A9")
        /\ bytes[i] = "A9" => (i > 1 /\ bytes[i - 1] = "C3")

\* Where c first is in s, or 0.
find(s, c) ==
    IF \E i \in 1..Len(s) : s[i] = c
    THEN CHOOSE i \in 1..Len(s) : s[i] = c /\ \A j \in 1..(i - 1) : s[j] # c
    ELSE 0

\* BufRead::read_line into an empty String: the bytes up to the first "\n",
\* that byte included, or all of them when there is none; an error when
\* they are not UTF-8.  rest is what the stream still holds.
read_line(buf) ==
    LET n == IF find(buf, LF) = 0 THEN Len(buf) ELSE find(buf, LF)
        rest == SubSeq(buf, n + 1, Len(buf))
    IN  IF from_utf8_ok(SubSeq(buf, 1, n))
        THEN [result |-> Success(SubSeq(buf, 1, n)), rest |-> rest]
        ELSE [result |-> Failure("stream did not contain valid UTF-8"),
              rest |-> rest]

\* str::split(c), c one byte.
RECURSIVE split_char(_, _)
split_char(s, c) ==
    IF find(s, c) = 0 THEN <<s>>
    ELSE <<SubSeq(s, 1, find(s, c) - 1)>>
            \o split_char(SubSeq(s, find(s, c) + 1, Len(s)), c)

Digits == <<"0", "1", "2", "3", "4", "5", "6", "7", "8", "9">>
IsDigit(b) == \E d \in 1..10 : Digits[d] = b
DigitValue(b) == (CHOOSE d \in 1..10 : Digits[d] = b) - 1

RECURSIVE from_digits(_, _)
from_digits(s, acc) ==
    IF s = <<>> THEN acc
    ELSE from_digits(Tail(s), acc * 10 + DigitValue(s[1]))

\* str::parse::<usize>: decimal digits after an optional "+".  The numbers
\* of the model's streams are far below usize::MAX, the overflow error is
\* not modelled.
parse_usize(s) ==
    IF s = <<>> THEN Failure("cannot parse integer from empty string")
    ELSE LET ds == IF s[1] = "+" THEN Tail(s) ELSE s
         IN  IF ds = <<>> \/ \E i \in 1..Len(ds) : ~IsDigit(ds[i])
             THEN Failure("invalid digit found in string")
             ELSE Success(from_digits(ds, 0))

\* usize formatted by "{}".
RECURSIVE to_digits(_)
to_digits(n) ==
    IF n < 10 THEN <<Digits[n + 1]>>
    ELSE to_digits(n \div 10) \o <<Digits[(n % 10) + 1]>>

\* The bytes of a string of the model, an atom or a sequence of bytes.
RECURSIVE as_bytes(_)
as_bytes(s) == IF Len(s) = 0 THEN <<>> ELSE <<Head(s)>> \o as_bytes(Tail(s))

ContentLengthName ==
    <<"C", "o", "n", "t", "e", "n", "t", "-", "L", "e", "n", "g", "t", "h">>
ContentTypeName ==
    <<"C", "o", "n", "t", "e", "n", "t", "-", "T", "y", "p", "e">>

SyntaxError ==
    "Syntax error: Header field needs to be of the form \"X: Y\r\n\"!"

\* format!("Unexpected header field \"{header_field_name}\"!"): the bytes of
\* the text, those of the name as they were read.
UnexpectedHeaderField(header_field_name) ==
    as_bytes("Unexpected header field \"") \o header_field_name \o as_bytes("\"!")

\* The loop of read never ends: at the end of the stream, no header field
\* read, read_line reads nothing again and again.
Spin == [spin |-> TRUE]

\* The loop of RawMessage::read over the header fields, from buf on, with
\* the message and read_any as the turns before left them.
RECURSIVE read_header(_, _, _)
read_header(buf, msg, read_any) ==
    LET l == read_line(buf)
    IN  IF ~l.result.ok THEN [result |-> l.result, rest |-> l.rest]
        ELSE LET header_field == l.result.v
                 parts == split_char(header_field, ":")
             IN  IF trim(header_field) = <<>>
                 THEN IF read_any THEN [result |-> Success(msg), rest |-> l.rest]
                      ELSE IF buf = <<>> THEN Spin
                      ELSE read_header(l.rest, msg, FALSE)
                 ELSE IF Len(parts) < 2
                 THEN [result |-> Failure(SyntaxError), rest |-> l.rest]
                 ELSE LET header_field_name == trim(parts[1])
                          header_field_value == trim(parts[2])
                          n == parse_usize(header_field_value)
                      IN  IF header_field_name = ContentLengthName
                          THEN IF n.ok
                               THEN read_header(l.rest,
                                        [msg EXCEPT !.content_length = n.v], TRUE)
                               ELSE [result |-> n, rest |-> l.rest]
                          ELSE IF header_field_name = ContentTypeName
                          THEN read_header(l.rest,
                                   [msg EXCEPT !.content_type = header_field_value],
                                   TRUE)
                          ELSE [result |->
                                    Failure(UnexpectedHeaderField(header_field_name)),
                                rest |-> l.rest]

\* A slip: read_any is true from the start, a blank line ends the header
\* section even before any header field.
RawMessage_read_blank_ends(buf) ==
    LET h == read_header(buf,
                 [content_length |-> 0, content_type |-> <<>>, content |-> <<>>],
                 TRUE)
    IN  IF h = Spin THEN Spin
        ELSE IF ~h.result.ok THEN Ok(h)
        ELSE LET n == h.result.v.content_length
                 content == SubSeq(h.rest, 1, n)
             IN  IF n > Len(h.rest) THEN Panic
                 ELSE IF ~from_utf8_ok(content) THEN Panic
                 ELSE Ok([result |-> Success([h.result.v EXCEPT !.content = content]),
                          rest |-> SubSeq(h.rest, n + 1, Len(h.rest))])

\* RawMessage::read: Spin, Panic, or Ok of the Result it returns and of the
\* bytes it leaves in the stream.
RawMessage_read(buf) ==
    LET h == read_header(buf,
                 [content_length |-> 0, content_type |-> <<>>, content |-> <<>>],
                 FALSE)
    IN  IF h = Spin THEN Spin
        ELSE IF ~h.result.ok THEN Ok(h)
        ELSE LET n == h.result.v.content_length
                 content == SubSeq(h.rest, 1, n)
             IN  IF n > Len(h.rest) THEN Panic
                 ELSE IF ~from_utf8_ok(content) THEN Panic
                 ELSE Ok([result |-> Success([h.result.v EXCEPT !.content = content]),
                          rest |-> SubSeq(h.rest, n + 1, Len(h.rest))])

\* RawMessage::write with a final line break after the content.
RawMessage_write_line(self) ==
    ContentLengthName \o <<":", " ">> \o to_digits(self.content_length) \o CRLF
    \o CRLF \o self.content \o CRLF

\* RawMessage::write: the bytes it writes.
RawMessage_write(self) ==
    ContentLengthName \o <<":", " ">> \o to_digits(self.content_length) \o CRLF
    \o (IF self.content_type # <<>>
        THEN ContentTypeName \o <<":", " ">> \o self.content_type \o CRLF
        ELSE <<>>)
    \o CRLF
    \o self.content

(***************************************************************************)
(* serde_json: a ResponseMessage to a Value (to_value), a Value to its     *)
(* text (to_string), and RawMessage::from.                                 *)
(***************************************************************************)
\* A byte of a string as serde_json writes it between the quotes.  A byte
\* of a character that is not ASCII is written as it is.  (The other
\* control characters, written \b or \u00XX, are not among the bytes of
\* the model.)
escape(b) ==
    CASE b = "\"" -> <<"\\", "\"">>
      [] b = "\\" -> <<"\\", "\\">>
      [] b = LF -> <<"\\", "n">>
      [] b = FF -> <<"\\", "f">>
      [] b = CR -> <<"\\", "r">>
      [] b = TAB -> <<"\\", "t">>
      [] OTHER -> <<b>>

RECURSIVE format_escaped_str_contents(_)
format_escaped_str_contents(bytes) ==
    IF bytes = <<>> THEN <<>>
    ELSE escape(bytes[1]) \o format_escaped_str_contents(Tail(bytes))

format_escaped_str(s) ==
    <<"\"">> \o format_escaped_str_contents(as_bytes(s)) \o <<"\"">>

\* An integer formatted in decimal.
itoa(n) == IF n < 0 THEN <<"-">> \o to_digits(0 - n) ELSE to_digits(n)

\* The bytes of the model, in their order.
ByteOrder ==
    <<TAB, LF, FF, CR, " ", "!", "\"", "#", "$", "%", "&", "'", "(", ")",
      "*", "+", ",", "-", ".", "/", "0", "1", "2", "3", "4", "5", "6", "7",
      "8", "9", ":", ";", "<", "=", ">", "?", "@", "A", "B", "C", "D", "E",
      "F", "G", "H", "I", "J", "K", "L", "M", "N", "O", "P", "Q", "R", "S",
      "T", "U", "V", "W", "X", "Y", "Z", "[", "\\", "]", "^", "_",
      "a", "b", "c", "d", "e", "f", "g", "h", "i", "j", "k", "l", "m", "n",
      "o", "p", "q", "r", "s", "t", "u", "v", "w", "x", "y", "z", "{", "|",
      "}", "~", "A9", "C3">>

\* The rank of each byte in that order.
ByteRank ==
    [b \in {ByteOrder[i] : i \in 1..Len(ByteOrder)} |->
       CHOOSE i \in 1..Len(ByteOrder) : ByteOrder[i] = b] @@ <<>>

\* Ord of String: the order of the bytes, a prefix before what it begins.
RECURSIVE str_lt(_, _)
str_lt(a, b) ==
    IF Len(b) = 0 THEN FALSE
    ELSE IF Len(a) = 0 THEN TRUE
    ELSE IF Head(a) = Head(b) THEN str_lt(Tail(a), Tail(b))
    ELSE ByteRank[Head(a)] < ByteRank[Head(b)]

\* BTreeMap::insert of a key that is not in keys, the keys in order.
btree_insert(keys, key) ==
    SubSeq(keys, 1, Cardinality({i \in 1..Len(keys) : str_lt(keys[i], key)}))
    \o <<key>>
    \o SubSeq(keys, Cardinality({i \in 1..Len(keys) : str_lt(keys[i], key)}) + 1,
              Len(keys))

\* The keys of a Map of serde_json, a BTreeMap, in the order it keeps them.
RECURSIVE btree_keys(_)
btree_keys(names) ==
    IF names = {} THEN <<>>
    ELSE btree_insert(btree_keys(names \ {CHOOSE k \in names : TRUE}),
                      CHOOSE k \in names : TRUE)

RECURSIVE to_string(_)
RECURSIVE to_string_members(_, _, _)
RECURSIVE to_string_elements(_, _)

\* The members of object o from the k-th of its keys on.
to_string_members(o, keys, k) ==
    IF k > Len(keys) THEN <<>>
    ELSE (IF k = 1 THEN <<>> ELSE <<",">>)
         \o format_escaped_str(keys[k]) \o <<":">> \o to_string(o[keys[k]])
         \o to_string_members(o, keys, k + 1)

\* The elements of array a from the i-th on.
to_string_elements(a, i) ==
    IF i > Len(a) THEN <<>>
    ELSE (IF i = 1 THEN <<>> ELSE <<",">>)
         \o to_string(a[i]) \o to_string_elements(a, i + 1)

\* Value::to_string: the compact JSON text, as bytes.
to_string(j) ==
    IF IsJNull(j) THEN <<"n", "u", "l", "l">>
    ELSE IF "bool" \in DOMAIN j
    THEN IF j.bool THEN <<"t", "r", "u", "e">> ELSE <<"f", "a", "l", "s", "e">>
    ELSE IF IsJNum(j) THEN itoa(j.num)
    ELSE IF IsJStr(j) THEN format_escaped_str(j.str)
    ELSE IF IsJArr(j) THEN <<"[">> \o to_string_elements(j.arr, 1) \o <<"]">>
    ELSE <<"{">> \o to_string_members(j.obj, btree_keys(DOMAIN j.obj), 1) \o <<"}">>

\* Serialize of ResponseError; data None is written as null.
to_value_ResponseError(e) ==
    JObj([code |-> JNum(e.code), message |-> JStr(e.message),
          data |-> IF e.data.some THEN e.data.v ELSE JNull])

\* serde_json::to_value of a ResponseMessage.
to_value(self) ==
    JObj([jsonrpc |-> JStr(self.jsonrpc),
          id |-> serialize_Id(self.id),
          result |-> IF self.result.some THEN self.result.v ELSE JNull,
          error |-> IF self.error.some
                    THEN to_value_ResponseError(self.error.v)
                    ELSE JNull])

\* The number of characters of a text: the bytes that begin one.
CountChars(content) ==
    Cardinality({i \in 1..Len(content) : ~IsContinuationByte(content[i])})

\* A slip: the length is the number of characters of the content.
RawMessage_of_chars(content) ==
    [content_length |-> CountChars(content), content_type |-> <<>>,
     content |-> content]

\* The RawMessage of a content: String::len is the number of bytes.
RawMessage_of(content) ==
    [content_length |-> Len(content), content_type |-> <<>>, content |-> content]

\* RawMessage::from
RawMessage_from(content) == RawMessage_of(to_string(content))

\* A slip: the frame is put before what stdout holds.
write_response_first(out, value) ==
    RawMessage_write(RawMessage_from(to_value(value))) \o out

\* The write of main: response.write(stdout), the bytes stdout holds after.
write_response(out, value) ==
    out \o RawMessage_write(RawMessage_from(to_value(value)))

(***************************************************************************)
(* The server specification: the loop of main, one get_response call per   *)
(* turn, the incoming messages drawn from bounded sets.                    *)
(***************************************************************************)
MaxTurns == 3
MaxChanges == 2

Uris == {"a.desc", "b.desc"}
Ids == {JNum(7), JStr("q"), JNull}

\* "", "01", "01\r\n23\r\n45", and U+00E9 "\n" "a" on one line.
OpenTexts ==
    { <<>>,
      <<"0", "1">>,
      <<"0", "1">> \o CRLF \o <<"2", "3">> \o CRLF \o <<"4", "5">>,
      <<"C3", "A9", LF, "a">> }

JPosition(l, c) == JObj([line |-> JNum(l), character |-> JNum(c)])
JRange(sl, sc, el, ec) == JObj([start |-> JPosition(sl, sc), end |-> JPosition(el, ec)])
JChange(range, text) == JObj([range |-> range, text |-> JStr(text)])
JTextDocument(uri) == JObj([uri |-> JStr(uri)])

\* An insertion, a deletion, a replacement over three lines by two, and a
\* range whose end line is before its start line.
Changes ==
    { JChange(JRange(0, 1, 0, 1), <<"x">>),
      JChange(JRange(0, 0, 0, 1), <<>>),
      JChange(JRange(0, 1, 2, 1), <<"y">> \o CRLF \o <<"z">>),
      JChange(JRange(1, 0, 0, 0), <<"w">>) }

\* The arrays of up to MaxChanges changes, all different.
ChangeLists ==
    UNION { {l \in [1..n -> Changes] : \A i, j \in 1..n : l[i] = l[j] => i = j} :
            n \in 0..MaxChanges }

HoverPositions ==
    { JPosition(0, 0), JPosition(0, 1), JPosition(0, 2), JPosition(1, 0),
      JPosition(0, 5), JPosition(3, 0) }

Request(id, method, params) ==
    JObj([jsonrpc |-> JStr("2.0"), id |-> id, method |-> JStr(method),
          params |-> params])

Notification(method, params) ==
    JObj([jsonrpc |-> JStr("2.0"), method |-> JStr(method), params |-> params])

EmptyObject == JObj([f \in {} |-> JNull])

InitializeMessages ==
    { Request(id, "initialize", EmptyObject) : id \in Ids }
    \cup { Request(JNum(7), "initialize",
                   JObj([clientInfo |-> JObj([name |-> JStr("editor")]),
                         locale |-> JStr("en")])) }

InitializedMessages == { Notification("initialized", EmptyObject) }

DidOpenMessages ==
    { Notification("textDocument/didOpen",
        JObj([textDocument |->
                JObj([uri |-> JStr(uri), languageId |-> JStr("descend"),
                      version |-> JNum(1), text |-> JStr(text)])])) :
        uri \in Uris, text \in OpenTexts }

\* Every array of changes for one document, and the arrays of at most one
\* change for the other.
DidChangeMessages ==
    { Notification("textDocument/didChange",
        JObj([textDocument |-> JTextDocument("a.desc"),
              contentChanges |-> JArr(changes)])) : changes \in ChangeLists }
    \cup { Notification("textDocument/didChange",
              JObj([textDocument |-> JTextDocument("b.desc"),
                    contentChanges |-> JArr(changes)])) :
              changes \in {l \in ChangeLists : Len(l) <= 1} }

DidCloseMessages ==
    { Notification("textDocument/didClose",
        JObj([textDocument |-> JTextDocument(uri)])) : uri \in Uris }

\* Every position with the id 7, and one position with the id "q".
HoverMessages ==
    { Request(JNum(7), "textDocument/hover",
        JObj([textDocument |-> JTextDocument(uri), position |-> position])) :
        uri \in Uris, position \in HoverPositions }
    \cup { Request(JStr("q"), "textDocument/hover",
              JObj([textDocument |-> JTextDocument(uri),
                    position |-> JPosition(0, 1)])) : uri \in Uris }

\* Requests to methods that are no request of the table: unknown ones, and
\* the method of a notification.
UnhandledRequestMessages ==
    { Request(id, "doesNotExist", JNull) : id \in Ids }
    \cup { Request(JObj([zzz |-> JStr(FF), a |-> JNum(1)]), "doesNotExist", JNull) }
    \cup { Request(JNum(7), "textDocument/didClose",
                   JObj([textDocument |-> JTextDocument("a.desc")])) }

UnhandledNotificationMessages ==
    { Notification("doesNotExist", JNull),
      Notification("textDocument/hover",
                   JObj([textDocument |-> JTextDocument("a.desc"),
                         position |-> JPosition(0, 0)])) }

\* Objects decoded as Response: replies, and a request without params.
ResponseMessages ==
    { JObj([jsonrpc |-> JStr("2.0"), id |-> JNum(99), result |-> JNull]),
      JObj([jsonrpc |-> JStr("2.0"), id |-> JStr("q"),
            error |-> JObj([code |-> JNum(-32800), message |-> JStr("cancelled")])]),
      JObj([jsonrpc |-> JStr("2.0"), id |-> JNum(7), method |-> JStr("shutdown")]) }

\* Contents from_raw does not take: no JSON, no object, a notification
\* without params, an object without jsonrpc.
UndecodableContents ==
    { NotJson,
      JNum(1),
      JObj([jsonrpc |-> JStr("2.0"), method |-> JStr("exit")]),
      JObj([id |-> JNum(7), method |-> JStr("initialize"), params |-> EmptyObject]) }

\* Messages to routed methods whose params the Params struct does not take.
BadParamsMessages ==
    { Request(JNum(7), "textDocument/hover",
        JObj([textDocument |-> JTextDocument("a.desc")])),
      Request(JNum(7), "initialize", JNull),
      Notification("initialized", JNull),
      Notification("textDocument/didChange",
        JObj([textDocument |-> JTextDocument("a.desc"),
              contentChanges |-> JArr(<<JObj([text |-> JStr(<<"x">>)])>>)])),
      Notification("textDocument/didOpen",
        JObj([textDocument |-> JTextDocument("a.desc")])) }

\* Messages with structs in serde's other form, the array of the fields:
\* the message itself, the params, a struct inside the params.
ArrayFormMessages ==
    { JArr(<<JStr("2.0"), JNum(7), JStr("initialize"), JArr(<<JNull, JNull>>)>>),
      JArr(<<JStr("2.0"), JStr("initialized"), JArr(<<>>)>>),
      JArr(<<JStr("2.0"), JNum(99), JNull,
             JArr(<<JNum(-32800), JStr("cancelled"), JNull>>)>>),
      Notification("textDocument/didChange",
        JArr(<<JArr(<<JStr("a.desc")>>),
               JArr(<<JArr(<<JArr(<<JArr(<<JNum(0), JNum(0)>>),
                                    JArr(<<JNum(0), JNum(1)>>)>>),
                             JStr(<<>>)>>)>>)>>)),
      Notification("textDocument/didClose", JArr(<<JArr(<<JStr("a.desc")>>)>>)),
      Request(JNum(7), "textDocument/hover",
        JArr(<<JTextDocument("a.desc"), JArr(<<JNum(0), JNum(1)>>)>>)) }

\* Errors of RawMessage::read.
ReadErrors == {UnexpectedHeaderField(<<"F", "o", "o">>)}

\* What the server specification leaves alone.
BufferIdle ==
    /\ doc = << <<>> >>
    /\ call = NoCall
    /\ outcome = Ok(doc)

Init ==
    /\ overflow_checks \in BOOLEAN
    /\ BufferIdle
    /\ ServerIdle
    /\ FramerIdle

\* The first half of a turn of the loop of main: RawMessage::read has
\* returned raw, and get_response is called on it.  A panic ends the
\* process: no response, and the documents are gone (the variable keeps
\* what it held).
Returned(raw, r) ==
    /\ message' = raw
    /\ turns' = turns + 1
    /\ documents_before' = text_documents
    /\ status' = IF r.panic THEN "panicked" ELSE "running"
    /\ response' = IF r.panic THEN None ELSE r.v.response
    /\ text_documents' = IF r.panic THEN text_documents ELSE r.v.docs

Turn(raw) ==
    /\ pc' = "write"
    /\ Returned(raw, get_response(text_documents, raw, overflow_checks))
    /\ UNCHANGED overflow_checks
    /\ UNCHANGED buffer_vars
    /\ UNCHANGED framer_vars

\* The process is alive, at the read of the loop, and the bound on the
\* turns is not reached.
Running == status = "running" /\ pc = "read" /\ turns < MaxTurns

RecvInitialize == Running /\ \E m \in InitializeMessages : Turn(Success(m))
RecvInitialized == Running /\ \E m \in InitializedMessages : Turn(Success(m))
RecvDidOpen == Running /\ \E m \in DidOpenMessages : Turn(Success(m))
RecvDidChange == Running /\ \E m \in DidChangeMessages : Turn(Success(m))
RecvDidClose == Running /\ \E m \in DidCloseMessages : Turn(Success(m))
RecvHover == Running /\ \E m \in HoverMessages : Turn(Success(m))
RecvUnhandledRequest == Running /\ \E m \in UnhandledRequestMessages : Turn(Success(m))
RecvUnhandledNotification == Running /\ \E m \in UnhandledNotificationMessages : Turn(Success(m))
RecvResponse == Running /\ \E m \in ResponseMessages : Turn(Success(m))
RecvUndecodable == Running /\ \E m \in UndecodableContents : Turn(Success(m))
RecvBadParams == Running /\ \E m \in BadParamsMessages : Turn(Success(m))
RecvReadError == Running /\ \E e \in ReadErrors : Turn(Failure(e))

RecvArrayForm == Running /\ \E m \in ArrayFormMessages : Turn(Success(m))

\* RawMessage::read panics: the stream ends before the content has its
\* length (read_exact), or the content is not UTF-8 (from_utf8).  The
\* process ends at the read of the loop, before get_response is called.
RecvReadPanic ==
    /\ Running
    /\ status' = "panicked"
    /\ UNCHANGED <<text_documents, message, response, turns, documents_before, pc>>
    /\ UNCHANGED overflow_checks
    /\ UNCHANGED buffer_vars
    /\ UNCHANGED framer_vars

\* The second half of a turn: the response, if there is one, is written, and
\* the loop goes back to its read; message and response go out of scope.
WriteResponse ==
    /\ status = "running"
    /\ pc = "write"
    /\ pc' = "read"
    /\ message' = NoMessage
    /\ response' = None
    /\ documents_before' = text_documents
    /\ stdout' = IF response.some THEN write_response(stdout, response.v)
                 ELSE stdout
    /\ UNCHANGED <<overflow_checks, text_documents, status, turns>>
    /\ UNCHANGED buffer_vars
    /\ UNCHANGED <<frame, stdin, read_result>>

Next ==
    \/ WriteResponse
    \/ RecvInitialize
    \/ RecvInitialized
    \/ RecvDidOpen
    \/ RecvDidChange
    \/ RecvDidClose
    \/ RecvHover
    \/ RecvUnhandledRequest
    \/ RecvUnhandledNotification
    \/ RecvResponse
    \/ RecvUndecodable
    \/ RecvBadParams
    \/ RecvReadError
    \/ RecvArrayForm
    \/ RecvReadPanic

Spec == Init /\ [][Next]_vars

(***************************************************************************)
(* The framer specification: a stream is made of one frame, or is at its   *)
(* end from the start (NoFrame); it is read once, and the RawMessage read  *)
(* is written.                                                             *)
(***************************************************************************)
\* The frames start with up to this many blank lines.
MaxBlankLines == 1

FrameContents ==
    { <<>>,
      <<"{", "}">>,
      <<"C3", "A9">>,
      <<CR, LF, CR, LF, "{", "}">>,
      <<"{", "\"", "a", "\"", ":", "\"", "h", "e", "l", "l", "o", "\"", "}">>,
      <<"{", "A9", "}">> }

HeaderLine(name, separator, value) == name \o separator \o value

\* Header lines for a content of n bytes: the ones a frame is to have, in
\* several spellings, and ones it is not to have; form feeds around the
\* value, and a line that holds a form feed only.
HeaderLines(n) ==
    LET length == HeaderLine(ContentLengthName, <<":", " ">>, to_digits(n))
        type == HeaderLine(ContentTypeName, <<":", " ">>, <<"a", "/", "b">>)
    IN  { <<length>>,
          <<length, type>>,
          <<type, length>>,
          <<HeaderLine(ContentLengthName, <<":", " ">>, <<"0">> \o to_digits(n))>>,
          <<length, HeaderLine(ContentTypeName, <<":", " ">>, <<"a", ":", "b">>)>>,
          <<HeaderLine(ContentLengthName, <<":">>, to_digits(n))>>,
          <<HeaderLine(ContentLengthName, <<":", " ">>, <<"+">> \o to_digits(n))>>,
          <<HeaderLine(ContentLengthName, <<":", " ">>, to_digits(n + 1))>>,
          <<HeaderLine(ContentLengthName, <<":", " ">>, to_digits(n \div 2))>>,
          <<HeaderLine(<<"F", "o", "o">>, <<":", " ">>, to_digits(n))>>,
          <<length, HeaderLine(<<"F", "o", "o">>, <<":", " ">>, <<"1">>)>>,
          <<HeaderLine(ContentLengthName, <<" ">>, to_digits(n))>>,
          <<HeaderLine(ContentLengthName, <<":", " ">>, <<"x">>)>>,
          <<HeaderLine(ContentLengthName, <<":">>, <<>>)>>,
          <<HeaderLine(ContentLengthName, <<":", FF>>, to_digits(n) \o <<FF>>)>>,
          << <<FF>>, length >>,
          <<HeaderLine(<<"C3", "A9">>, <<":", " ">>, <<"1">>)>>,
          <<type>>,
          <<>> }

Frames ==
    UNION { { [blank |-> blank, eol |-> eol, lines |-> lines, content |-> content] :
                blank \in 0..MaxBlankLines,
                eol \in {CRLF, <<LF>>},
                lines \in HeaderLines(Len(content)) } :
            content \in FrameContents }

\* The bytes of the frame: the blank lines, the header lines, the blank
\* line that ends the header, the content.
RECURSIVE FrameHeader(_, _)
FrameHeader(lines, eol) ==
    IF lines = <<>> THEN <<>>
    ELSE lines[1] \o eol \o FrameHeader(Tail(lines), eol)

FrameBytes(f) ==
    (IF f.blank = 0 THEN <<>> ELSE FrameHeader([i \in 1..f.blank |-> <<>>], f.eol))
    \o FrameHeader(f.lines, f.eol) \o f.eol \o f.content

FramerInit ==
    /\ overflow_checks = TRUE
    /\ BufferIdle
    /\ ServerIdle
    /\ frame \in Frames \cup {NoFrame}
    /\ stdin = FrameBytes(frame)
    /\ read_result = None
    /\ stdout = <<>>

\* RawMessage::read on the stream; it is no step when read never returns.
ReadReturned(r) ==
    /\ r # Spin
    /\ read_result' = Some(IF r.panic THEN Panic ELSE Ok(r.v.result))
    /\ stdin' = IF r.panic THEN stdin ELSE r.v.rest

ReadFrame ==
    /\ read_result = None
    /\ ReadReturned(RawMessage_read(stdin))
    /\ UNCHANGED <<frame, stdout>>
    /\ UNCHANGED <<overflow_checks, buffer_vars, server_vars>>

\* RawMessage::write of the RawMessage that was read.
WriteFrame ==
    /\ read_result.some
    /\ ~read_result.v.panic
    /\ read_result.v.v.ok
    /\ stdout = <<>>
    /\ stdout' = RawMessage_write(read_result.v.v.v)
    /\ UNCHANGED <<frame, stdin, read_result>>
    /\ UNCHANGED <<overflow_checks, buffer_vars, server_vars>>

FramerNext == ReadFrame \/ WriteFrame

SpecFramer == FramerInit /\ [][FramerNext]_vars

(***************************************************************************)
(* Positions and ranges the claims speak of.                               *)
(***************************************************************************)
\* start <= end in (line, character) order.
StartLeEnd(range) ==
    \/ range.start.line < range.end.line
    \/ /\ range.start.line = range.end.line
       /\ range.start.character <= range.end.character

\* The position lies inside the document: an existing line, and an offset
\* up to the length of that line.
InsideBounds(ls, position) ==
    /\ position.line < Len(ls)
    /\ position.character <= Len(ls[position.line + 1])

\* The characters of a line of UTF-8 text: as many as it has bytes that
\* begin a character.
CharCount(line) ==
    Cardinality({i \in 1..Len(line) : ~IsContinuationByte(line[i])})

\* The position lies inside the document, its offset counted in characters
\* as the claims count it: an existing line, and an offset up to the number
\* of characters of that line.  Such a position is inside the document
\* counted in bytes as well (InsideBounds), a line having no more
\* characters than bytes, and in UTF-16 units, every character of the
\* model being one unit.
InsideBoundsInCharacters(ls, position) ==
    /\ position.line < Len(ls)
    /\ position.character <= CharCount(ls[position.line + 1])

\* The bytes of the first n characters of the line, n at most CharCount.
CharOffset(line, n) ==
    CHOOSE i \in 0..Len(line) :
        /\ is_char_boundary(line, i)
        /\ CharCount(SubSeq(line, 1, i)) = n

\* The first n characters of the line, and the line from character n on.
LineHead(line, n) == SubSeq(line, 1, CharOffset(line, n))
LineTail(line, n) == SubSeq(line, CharOffset(line, n) + 1, Len(line))

(***************************************************************************)
(* The last incoming message, as the claims speak of it.                   *)
(***************************************************************************)
\* It was read and is a JSON object.
IsObjectMessage == message.ok /\ IsJObj(message.v)

\* It is decoded as a Request, as a Response, as a Notification.
IsRequestMessage == message.ok /\ IsRequest(message.v)
IsResponseMessage == message.ok /\ ~IsRequest(message.v) /\ IsResponse(message.v)
IsNotificationMessage ==
    /\ message.ok
    /\ ~IsRequest(message.v)
    /\ ~IsResponse(message.v)
    /\ IsNotification(message.v)

\* The fields of the message, by name, whichever form it came in: an
\* object, or the array of the fields of the variant it is decoded as.
MessageObject ==
    IF IsJObj(message.v) THEN message.v.obj
    ELSE IF IsRequest(message.v)
    THEN struct_of(RequestMessageFields, message.v).obj
    ELSE IF IsResponse(message.v)
    THEN struct_of(ResponseMessageFields, message.v).obj
    ELSE IF IsNotification(message.v)
    THEN struct_of(NotificationMessageFields, message.v).obj
    ELSE [f \in {} |-> JNull]

MessageId == MessageObject.id
MessageMethod == MessageObject.method.str
MessageParams == MessageObject.params

\* It is a request, a notification, to this method, with params the method takes.
IsMessageTo(method) ==
    message.ok /\ IsStr(MessageObject, "method") /\ MessageMethod = method
IsRequestTo(method) ==
    IsMessageTo(method) /\ IsRequestMessage /\ FitsParams(method, MessageParams)
IsNotificationTo(method) ==
    IsMessageTo(method) /\ IsNotificationMessage /\ FitsParams(method, MessageParams)

\* The arguments the params give, by name, and the document they name.
MessageArguments == from_value_Params(MessageMethod, MessageParams)
MessageTextDocument ==
    IF IsJObj(MessageParams) /\ IsJObj(MessageParams.obj.textDocument)
    THEN MessageParams.obj.textDocument
    ELSE MessageArguments.textDocument
MessageUri == MessageTextDocument.obj.uri.str
MessagePosition ==
    PositionOf(struct_of(ParamsFields(MessageMethod), MessageParams).obj.position)

(***************************************************************************)
(* C1: routing a Request whose method is not in the dispatch table yields  *)
(* one response with the request's own id, no result, and error.code       *)
(* -32601 with the message "Unhandled request {method}!"; the Document     *)
(* Store is unchanged.                                                     *)
(***************************************************************************)
C1_UnhandledRequest ==
    ( /\ IsRequestMessage
      /\ MessageMethod \notin RequestMethods \cup NotificationMethods )
    => /\ status = "running"
       /\ response.some
       /\ serialize_Id(response.v.id) = MessageId
       /\ response.v.result = None
       /\ response.v.error =
            Some([code |-> -32601,
                  message |-> "Unhandled request " \o MessageMethod \o "!",
                  data |-> None])
       /\ text_documents = documents_before

\* The request of the specification's scenario, id 7 to "doesNotExist",
\* answered while a document is open.
C1_Witness ==
    /\ IsRequestMessage
    /\ MessageMethod = "doesNotExist"
    /\ MessageId = JNum(7)
    /\ response.some
    /\ response.v.id = AsInt(7)
    /\ response.v.error.v.code = -32601
    /\ DOMAIN text_documents # {}

(***************************************************************************)
(* C2: routing a Notification never produces a response; for an unknown    *)
(* method the Document Store is unchanged as well, and for a method of the *)
(* table there is no response whatever the handler does.                   *)
(***************************************************************************)
C2_NotificationNoResponse ==
    IsNotificationMessage
    => /\ response = None
       /\ MessageMethod \notin NotificationMethods
            => (status = "running" /\ text_documents = documents_before)

\* A didChange notification that changed an open document: no response.
C2_Witness ==
    /\ IsNotificationTo("textDocument/didChange")
    /\ status = "running"
    /\ text_documents # documents_before
    /\ response = None

(***************************************************************************)
(* C3: applyChanges (textDocument/didChange) addressed to a URI that is    *)
(* not open is a recoverable error: the Document Store is unchanged and    *)
(* the process does not abort.                                             *)
(***************************************************************************)
C3_UnknownDocumentRecoverable ==
    ( /\ IsNotificationTo("textDocument/didChange")
      /\ MessageUri \notin DOMAIN documents_before )
    => /\ status = "running"
       /\ text_documents = documents_before

(***************************************************************************)
(* C4: for every document and every range with start <= end inside the     *)
(* document's bounds, edit(range, "") leaves the buffer exactly as         *)
(* erase(range) leaves it.                                                 *)
(***************************************************************************)
C4_EditEmptyIsErase ==
    ( /\ call.op = "edit"
      /\ call.text = <<>>
      /\ StartLeEnd(call.range)
      /\ InsideBounds(doc, call.range.start)
      /\ InsideBounds(doc, call.range.end) )
    => outcome = erase(doc, call.range, overflow_checks)

\* An edit with the empty text over several lines that changed the document.
C4_Witness ==
    /\ call.op = "edit"
    /\ call.text = <<>>
    /\ InsideBounds(doc, call.range.start)
    /\ InsideBounds(doc, call.range.end)
    /\ call.range.start.line + 2 = call.range.end.line
    /\ call.range.start.character = 1
    /\ ~outcome.panic
    /\ Len(outcome.v) = 1
    /\ outcome.v # doc

(***************************************************************************)
(* C5: after open(uri, text) the buffer stored at uri is exactly text      *)
(* split on "\r\n", whether or not a buffer was stored at that URI and     *)
(* whatever it held.                                                       *)
(***************************************************************************)
RECURSIVE JoinLines(_)
\* The lines joined by "\r\n".
JoinLines(ls) ==
    IF Len(ls) = 1 THEN ls[1]
    ELSE ls[1] \o CRLF \o JoinLines(SubSeq(ls, 2, Len(ls)))

HoldsCRLF(line) ==
    \E i \in 1..(Len(line) - 1) : line[i] = CR /\ line[i + 1] = LF

\* The segments of text between its "\r\n": they hold no "\r\n" and, joined
\* by "\r\n", give text.
IsSplitOf(ls, text) ==
    /\ Len(ls) >= 1
    /\ JoinLines(ls) = text
    /\ \A j \in 1..Len(ls) : ~HoldsCRLF(ls[j])

C5_OpenStoresSplitText ==
    IsNotificationTo("textDocument/didOpen")
    => /\ status = "running"
       /\ MessageUri \in DOMAIN text_documents
       /\ IsSplitOf(text_documents[MessageUri],
                    MessageTextDocument.obj.text.str)
       /\ \A uri \in DOMAIN text_documents \ {MessageUri} :
             /\ uri \in DOMAIN documents_before
             /\ text_documents[uri] = documents_before[uri]

\* A document opened again, over a buffer of other content, with a text of
\* three lines.
C5_Witness ==
    /\ IsNotificationTo("textDocument/didOpen")
    /\ MessageUri \in DOMAIN documents_before
    /\ documents_before[MessageUri] # text_documents[MessageUri]
    /\ Len(documents_before[MessageUri]) = 1
    /\ Len(text_documents[MessageUri]) = 3

(***************************************************************************)
(* C6: for every stream that is one valid framed message, reading it and   *)
(* writing the RawMessage read gives a frame whose content is exactly the  *)
(* content of the frame the stream was made of.                            *)
(***************************************************************************)
\* The line is "Content-Length: " and decimal digits that denote n.
IsLengthLine(line, n) ==
    LET k == Len(ContentLengthName) + 2
    IN  /\ Len(line) > k
        /\ SubSeq(line, 1, k) = ContentLengthName \o <<":", " ">>
        /\ \A i \in (k + 1)..Len(line) : IsDigit(line[i])
        /\ from_digits(SubSeq(line, k + 1, Len(line)), 0) = n

\* The line is "Content-Type: " and a value.
IsTypeLine(line) ==
    LET k == Len(ContentTypeName) + 2
    IN  /\ Len(line) > k
        /\ SubSeq(line, 1, k) = ContentTypeName \o <<":", " ">>
        /\ \A i \in (k + 1)..Len(line) : line[i] \notin {CR, LF}

\* One valid framed message: lines ended by "\r\n", one Content-Length line
\* that gives the byte length of the content, Content-Type lines at most
\* besides it, and a content that is UTF-8.
IsValidFrame(f) ==
    /\ f.eol = CRLF
    /\ from_utf8_ok(f.content)
    /\ Cardinality({ i \in 1..Len(f.lines) :
                        IsLengthLine(f.lines[i], Len(f.content)) }) = 1
    /\ \A i \in 1..Len(f.lines) :
          IsLengthLine(f.lines[i], Len(f.content)) \/ IsTypeLine(f.lines[i])

\* Where the header of the written bytes ends: the first "\r\n\r\n".
HeaderEnd(bytes) ==
    CHOOSE i \in 1..Len(bytes) :
        /\ SubSeq(bytes, i, i + 3) = CRLF \o CRLF
        /\ \A j \in 1..(i - 1) : SubSeq(bytes, j, j + 3) # CRLF \o CRLF

\* The content field of the written frame: the bytes after its header.
FrameContent(bytes) == SubSeq(bytes, HeaderEnd(bytes) + 4, Len(bytes))

\* The first line of the written frame.
FirstLine(bytes) == SubSeq(bytes, 1, find(bytes, CR) - 1)

C6_FramerRoundTrip ==
    ( /\ IsValidFrame(frame)
      /\ read_result.some )
    => /\ ~read_result.v.panic
       /\ read_result.v.v.ok
       /\ read_result.v.v.v.content = frame.content
       /\ stdin = <<>>
       /\ stdout # <<>> =>
             /\ FrameContent(stdout) = frame.content
             /\ IsLengthLine(FirstLine(stdout), Len(frame.content))

\* A frame after a blank line, with both header fields and a content of
\* thirteen bytes, read and written: the content is the same, the bytes
\* written are not the bytes read.
C6_Witness ==
    /\ IsValidFrame(frame)
    /\ frame.blank = 1
    /\ Len(frame.lines) = 2
    /\ Len(frame.content) = 13
    /\ stdout # <<>>
    /\ FrameContent(stdout) = frame.content
    /\ stdout # FrameBytes(frame)

(***************************************************************************)
(* C7: erase(range), for a range in bounds with start <= end.  On one line *)
(* it removes the characters [start.character, end.character) of the line; *)
(* over several lines the start line becomes its first start.character     *)
(* characters followed by the end line from end.character on, the line     *)
(* count drops by end.line - start.line, and the lines before the start    *)
(* line and after the end line keep their content and order.  Offsets are  *)
(* counted in characters, in the bounds and in what is removed.            *)
(***************************************************************************)
C7_Erase ==
    ( /\ call.op = "erase"
      /\ StartLeEnd(call.range)
      /\ InsideBoundsInCharacters(doc, call.range.start)
      /\ InsideBoundsInCharacters(doc, call.range.end) )
    => /\ ~outcome.panic
       /\ LET s == call.range.start
              e == call.range.end
              d == e.line - s.line
              r == outcome.v
          IN  /\ Len(r) = Len(doc) - d
              /\ r[s.line + 1] = LineHead(doc[s.line + 1], s.character)
                                    \o LineTail(doc[e.line + 1], e.character)
              /\ \A j \in 1..s.line : r[j] = doc[j]
              /\ \A j \in (e.line + 2)..Len(doc) : r[j - d] = doc[j]

(***************************************************************************)
(* C8: insert(position, text), for a position in bounds and the text split *)
(* on "\r\n" into k segments.  For k = 1 the segment is inserted into the  *)
(* line at offset position.character.  For k > 1 the line becomes head +   *)
(* first segment, the interior segments become the next lines in order,    *)
(* the line after them is last segment + tail, the line count grows by     *)
(* k - 1, and all other lines keep their content and order.  Offsets are   *)
(* counted in characters, in the bounds and in head and tail.              *)
(***************************************************************************)
C8_Insert ==
    ( /\ call.op = "insert"
      /\ InsideBoundsInCharacters(doc, call.position) )
    => /\ ~outcome.panic
       /\ LET p == call.position
              segs == split(call.text)
              k == Len(segs)
              line == doc[p.line + 1]
              r == outcome.v
          IN  /\ Len(r) = Len(doc) + k - 1
              /\ \A j \in 1..p.line : r[j] = doc[j]
              /\ \A j \in (p.line + 2)..Len(doc) : r[j + k - 1] = doc[j]
              /\ IF k = 1
                 THEN r[p.line + 1] = LineHead(line, p.character) \o segs[1]
                                        \o LineTail(line, p.character)
                 ELSE /\ r[p.line + 1] = LineHead(line, p.character) \o segs[1]
                      /\ \A m \in 2..(k - 1) : r[p.line + m] = segs[m]
                      /\ r[p.line + k] = segs[k] \o LineTail(line, p.character)

(***************************************************************************)
(* C9: applyChanges(uri, changes) applies the changes one after another in *)
(* array order to the same buffer, each range read against the buffer as   *)
(* the previous change left it; the final buffer is the one obtained by    *)
(* sending each change in a didChange notification of its own, in order.   *)
(***************************************************************************)
\* The edits of the changes from the i-th on, each on the lines the one
\* before left.
RECURSIVE EditsInOrder(_, _, _)
EditsInOrder(ls, changes, i) ==
    IF i > Len(changes) THEN Ok(ls)
    ELSE LET e == edit(ls, RangeOf(changes[i].obj.range),
                       changes[i].obj.text.str, overflow_checks)
         IN  IF e.panic THEN Panic ELSE EditsInOrder(e.v, changes, i + 1)

\* One didChange notification per change, from the i-th on, each routed on
\* the documents the one before left.
RECURSIVE OneNotificationEach(_, _, _, _)
OneNotificationEach(docs, uri, changes, i) ==
    IF i > Len(changes) THEN Ok([docs |-> docs])
    ELSE LET r == get_response(docs,
                    Success(Notification("textDocument/didChange",
                        JObj([textDocument |-> JTextDocument(uri),
                              contentChanges |-> JArr(<<changes[i]>>)]))),
                    overflow_checks)
         IN  IF r.panic THEN Panic
             ELSE OneNotificationEach(r.v.docs, uri, changes, i + 1)

C9_ChangesInOrder ==
    ( /\ IsNotificationTo("textDocument/didChange")
      /\ MessageUri \in DOMAIN documents_before )
    => LET changes == MessageArguments.contentChanges.arr
           edits == EditsInOrder(documents_before[MessageUri], changes, 1)
           apart == OneNotificationEach(documents_before, MessageUri, changes, 1)
       IN  /\ (status = "panicked") = edits.panic
           /\ (status = "panicked") = apart.panic
           /\ status = "running" =>
                /\ text_documents =
                     [documents_before EXCEPT ![MessageUri] = edits.v]
                /\ text_documents = apart.v.docs

\* Two changes in one notification whose result depends on their order:
\* "01" with "x" inserted at offset 1 and then the first character erased
\* is "x1".
C9_Witness ==
    /\ IsNotificationTo("textDocument/didChange")
    /\ MessageUri \in DOMAIN documents_before
    /\ documents_before[MessageUri] = << <<"0", "1">> >>
    /\ Len(MessageArguments.contentChanges.arr) = 2
    /\ status = "running"
    /\ text_documents[MessageUri] = << <<"x", "1">> >>

(***************************************************************************)
(* C10: a textDocument/hover request for an open document and a position   *)
(* inside its bounds yields a response with the request's id whose result  *)
(* is contents.kind = "plaintext" and contents.value = the addressed line  *)
(* from position.character to its end, as the edits so far left it; the    *)
(* Document Store is not modified.  Offsets are counted in characters, in  *)
(* the bounds and in the value.                                            *)
(***************************************************************************)
C10_Hover ==
    ( /\ IsRequestTo("textDocument/hover")
      /\ MessageUri \in DOMAIN documents_before
      /\ InsideBoundsInCharacters(documents_before[MessageUri], MessagePosition) )
    => LET position == MessagePosition
           line == documents_before[MessageUri][position.line + 1]
       IN  /\ status = "running"
           /\ response.some
           /\ serialize_Id(response.v.id) = MessageId
           /\ response.v.error = None
           /\ response.v.result =
                Some(JObj([contents |->
                    JObj([kind |-> JStr("plaintext"),
                          value |-> JStr(LineTail(line, position.character))])]))
           /\ text_documents = documents_before

(***************************************************************************)
(* C11: a textDocument/hover request that names a URI that is not open, or *)
(* a position whose line or character is outside the document's bounds,    *)
(* yields a response with the request's id and an error in its error       *)
(* field; the process does not abort and the Document Store is unchanged.  *)
(***************************************************************************)
C11_HoverErrorIsResponse ==
    ( /\ IsRequestTo("textDocument/hover")
      /\ \/ MessageUri \notin DOMAIN documents_before
         \/ ~InsideBounds(documents_before[MessageUri],
                          MessagePosition) )
    => /\ status = "running"
       /\ response.some
       /\ serialize_Id(response.v.id) = MessageId
       /\ response.v.result = None
       /\ response.v.error.some
       /\ text_documents = documents_before

(***************************************************************************)
(* C12: the classification of a decoded JSON object depends only on the    *)
(* presence of method and id: with both it is a Request (with or without   *)
(* params, also when id is null), with method and no id a Notification,    *)
(* without method a Response.                                              *)
(***************************************************************************)
C12_ClassifiedByMethodAndId ==
    IsObjectMessage
    => /\ from_raw(message.v).ok
       /\ from_raw(message.v).v.kind =
            IF Has(message.v.obj, "method")
            THEN IF Has(message.v.obj, "id") THEN "Request" ELSE "Notification"
            ELSE "Response"

(***************************************************************************)
(* C13: a Request to a method of the table whose params cannot be          *)
(* deserialized into the handler's parameters yields a response with the   *)
(* request's id and error.code -32602; the handler is not called, the      *)
(* Document Store is unchanged and the process does not abort.             *)
(***************************************************************************)
C13_InvalidParamsIsResponse ==
    ( /\ IsRequestMessage
      /\ MessageMethod \in RequestMethods
      /\ ~FitsParams(MessageMethod, MessageParams) )
    => /\ status = "running"
       /\ response.some
       /\ serialize_Id(response.v.id) = MessageId
       /\ response.v.result = None
       /\ response.v.error.some
       /\ response.v.error.v.code = -32602
       /\ text_documents = documents_before

(***************************************************************************)
(* C14: no framing error and no JSON decode error on an incoming message   *)
(* ends the loop: each is answered by an error response, and the loop goes *)
(* on to the next message.                                                 *)
(***************************************************************************)
\* RawMessage::read has panicked at the read of the loop.
ReadPanicked == status = "panicked" /\ pc = "read"

\* The read has panicked, or get_response was called on an error of
\* RawMessage::read, or on a content that does not decode into a Message.
IsReadOrDecodeError ==
    \/ ReadPanicked
    \/ /\ pc = "write"
       /\ \/ ~message.ok
          \/ ~from_raw(message.v).ok

C14_ErrorsAnsweredLoopGoesOn ==
    IsReadOrDecodeError
    => /\ status = "running"
       /\ response.some
       /\ response.v.error.some

(***************************************************************************)
(* C15: every Request to a method of the table whose params deserialize    *)
(* produces exactly one response, with the id of the request and exactly   *)
(* one of result and error.                                                *)
(***************************************************************************)
C15_OneResponseResultOrError ==
    ( /\ IsRequestMessage
      /\ MessageMethod \in RequestMethods
      /\ FitsParams(MessageMethod, MessageParams) )
    => /\ status = "running"
       /\ response.some
       /\ serialize_Id(response.v.id) = MessageId
       /\ response.v.result.some # response.v.error.some

(***************************************************************************)
(* C16: routing a Response message, whatever its id, is a no-op: no        *)
(* response, no error, and the Document Store is unchanged.                *)
(***************************************************************************)
C16_ResponseIsNoOp ==
    IsResponseMessage
    => /\ status = "running"
       /\ response = None
       /\ text_documents = documents_before

\* A reply with id 99, an id the server has issued to nobody, routed while
\* a document is open: nothing is answered and the document is as it was.
C16_Witness ==
    /\ IsResponseMessage
    /\ MessageId = JNum(99)
    /\ status = "running"
    /\ response = None
    /\ DOMAIN text_documents # {}
    /\ text_documents = documents_before

(***************************************************************************)
(* C17: in every reachable state every TextDocument of the Document Store  *)
(* has at least one line: after an open with any text, the empty text      *)
(* included, and after every erase, insert and edit.                       *)
(***************************************************************************)
C17_AtLeastOneLine ==
    \A uri \in DOMAIN text_documents : Len(text_documents[uri]) >= 1

\* A document opened with the empty text: it has one line, the empty one.
C17_Witness ==
    /\ IsNotificationTo("textDocument/didOpen")
    /\ MessageTextDocument.obj.text.str = <<>>
    /\ status = "running"
    /\ text_documents[MessageUri] = << <<>> >>

(***************************************************************************)
(* C18: RawMessage::read fails with a header error when the header ends    *)
(* without a Content-Length field (only Content-Type is there, say), and   *)
(* when the value of Content-Length is no non-negative integer; it returns *)
(* no RawMessage then.                                                     *)
(***************************************************************************)
\* The header of the frame has fields, and all are Content-Type fields.
HasNoLengthField(f) ==
    /\ Len(f.lines) >= 1
    /\ \A i \in 1..Len(f.lines) : IsTypeLine(f.lines[i])

\* The first field of the frame is Content-Length with a value that is
\* empty or holds something else than digits and signs.
HasBadLength(f) ==
    /\ Len(f.lines) >= 1
    /\ LET k == Len(ContentLengthName) + 1
           line == f.lines[1]
           value == trim(SubSeq(line, k + 1, Len(line)))
       IN  /\ Len(line) >= k
           /\ SubSeq(line, 1, k) = ContentLengthName \o <<":">>
           /\ \/ value = <<>>
              \/ \E i \in 1..Len(value) : ~IsDigit(value[i]) /\ value[i] # "+"

C18_NoLengthIsHeaderError ==
    ( /\ read_result.some
      /\ HasNoLengthField(frame) \/ HasBadLength(frame) )
    => /\ ~read_result.v.panic
       /\ ~read_result.v.v.ok

(***************************************************************************)
(* C19: when the input stream is closed (end of input) the loop of main    *)
(* terminates: it does not stay, spinning, in a read for a header that     *)
(* never comes.  The loop begins with RawMessage::read; the read main       *)
(* calls at the end of input comes to an end, by a return or an abort.     *)
(***************************************************************************)
C19_EndOfInputEndsRead ==
    ( /\ stdin = <<>>
      /\ read_result = None )
    => ENABLED ReadFrame

(***************************************************************************)
(* C20: the set of URIs of the Document Store changes only by didOpen,     *)
(* which adds or replaces the addressed URI, and by didClose, which        *)
(* removes it; no other message adds or removes a URI, and no message      *)
(* addressed to one URI changes the buffer stored under another.           *)
(***************************************************************************)
C20_DocumentLifecycle ==
    /\ DOMAIN text_documents # DOMAIN documents_before
         => \/ IsNotificationTo("textDocument/didOpen")
            \/ IsNotificationTo("textDocument/didClose")
    /\ IsNotificationTo("textDocument/didOpen")
         => DOMAIN text_documents = DOMAIN documents_before \cup {MessageUri}
    /\ IsNotificationTo("textDocument/didClose")
         => DOMAIN text_documents = DOMAIN documents_before \ {MessageUri}
    /\ \A uri \in DOMAIN text_documents \cap DOMAIN documents_before :
         text_documents[uri] # documents_before[uri]
           => /\ \/ IsNotificationTo("textDocument/didOpen")
                 \/ IsNotificationTo("textDocument/didChange")
              /\ MessageUri = uri

\* One of two open documents is closed: its URI is gone, the other document
\* is there as it was.
C20_Witness ==
    /\ IsNotificationTo("textDocument/didClose")
    /\ DOMAIN documents_before = Uris
    /\ DOMAIN text_documents = Uris \ {MessageUri}
    /\ \A uri \in DOMAIN text_documents :
          text_documents[uri] = documents_before[uri]

(***************************************************************************)
(* C21: every frame the server writes is "Content-Length: N\r\n", a        *)
(* Content-Type line only when content_type is not empty, one blank        *)
(* "\r\n", and the content with nothing after it; for every response the   *)
(* loop builds, N is the number of bytes of the content, not its number of *)
(* characters.                                                             *)
(***************************************************************************)
\* The frame of a content with the length and the type given.
FrameOf(length, type, content) ==
    <<"C", "o", "n", "t", "e", "n", "t", "-", "L", "e", "n", "g", "t", "h",
      ":", " ">> \o to_digits(length) \o <<CR, LF>>
    \o (IF type = <<>> THEN <<>>
        ELSE <<"C", "o", "n", "t", "e", "n", "t", "-", "T", "y", "p", "e",
               ":", " ">> \o type \o <<CR, LF>>)
    \o <<CR, LF>>
    \o content

\* The step of the loop that writes response appends the frame of content,
\* with its number of bytes and no Content-Type line.
WritesFrameOf(content) == stdout' = stdout \o FrameOf(Len(content), <<>>, content)

C21_FramesWritten ==
    [][ (pc = "write" /\ response.some)
        => WritesFrameOf(to_string(to_value(response.v))) ]_vars

\* The answer to a hover on a line that begins with U+00E9 is on stdout,
\* alone: its content has more bytes than characters, and the length its
\* first line gives is the number of its bytes.
C21_Witness ==
    /\ pc = "read"
    /\ \E i \in 1..Len(stdout) : stdout[i] = "C3"
    /\ IsLengthLine(FirstLine(stdout), Len(FrameContent(stdout)))
    /\ CountChars(FrameContent(stdout)) < Len(FrameContent(stdout))

(***************************************************************************)
(* C22: in RawMessage::read, blank lines before any header field are       *)
(* skipped and do not end the header section; the first blank line after   *)
(* at least one header field ends it; a header name other than             *)
(* Content-Length or Content-Type makes read return an error, no message.  *)
(***************************************************************************)
\* The name of a header line: what is before its first ":", trimmed.
HeaderName(line) == trim(split_char(line, ":")[1])

\* A line of the header of f that is not blank has a name that is not one
\* of the two; the blank lines before it, if any, begin the header.
HasUnknownName(f) ==
    \E i \in 1..Len(f.lines) :
        /\ trim(f.lines[i]) # <<>>
        /\ HeaderName(f.lines[i]) \notin {ContentLengthName, ContentTypeName}
        /\ \A j \in 1..(i - 1) :
              trim(f.lines[j]) = <<>> => \A k \in 1..j : trim(f.lines[k]) = <<>>

\* The header of f is one of a valid frame, whatever ends its lines and
\* however many blank lines come before it.
HasValidHeader(f) == IsValidFrame([f EXCEPT !.eol = CRLF])

C22_BlankLinesAndNames ==
    (frame # NoFrame /\ read_result.some)
    => /\ HasUnknownName(frame)
          => (~read_result.v.panic /\ ~read_result.v.v.ok)
       /\ HasValidHeader(frame)
          => /\ ~read_result.v.panic
             /\ read_result.v.v.ok
             /\ read_result.v.v.v.content_length = Len(frame.content)
             /\ read_result.v.v.v.content = frame.content
             /\ stdin = <<>>

\* A frame after a blank line, whose content begins with two blank lines:
\* the header was read past the first, and ended before the others.
C22_Witness ==
    /\ frame # NoFrame
    /\ frame.blank >= 1
    /\ HasValidHeader(frame)
    /\ Len(frame.content) > 4
    /\ SubSeq(frame.content, 1, 4) = CRLF \o CRLF
    /\ read_result.some
    /\ read_result.v.v.v.content = frame.content

(***************************************************************************)
(* C23: the loop runs one turn at a time.  The response to a message, if   *)
(* it has one, is wholly written before the next message is read; at most  *)
(* one response is written for a message; the responses are on stdout in   *)
(* the order of their requests.                                            *)
(***************************************************************************)
\* The line is "Content-Length: " and decimal digits.
IsLengthField(line) ==
    /\ Len(line) > Len(ContentLengthName) + 2
    /\ SubSeq(line, 1, Len(ContentLengthName) + 2)
          = ContentLengthName \o <<":", " ">>
    /\ \A i \in (Len(ContentLengthName) + 3)..Len(line) : IsDigit(line[i])

\* The length such a line gives.
LengthGiven(line) ==
    from_digits(SubSeq(line, Len(ContentLengthName) + 3, Len(line)), 0)

\* The contents a reader takes off the bytes, frame after frame: the
\* header is a Content-Length line and a blank line (cr: where the first
\* "\r" is), the content is as long as the line says (n).  The last element
\* is <<"?">> when the bytes left are no frame.
RECURSIVE FramesWritten(_)
TakeContent(bytes, cr, n) ==
    IF cr + 3 + n > Len(bytes) THEN << <<"?">> >>
    ELSE <<SubSeq(bytes, cr + 4, cr + 3 + n)>>
         \o FramesWritten(SubSeq(bytes, cr + 4 + n, Len(bytes)))

TakeFrame(bytes, cr) ==
    IF /\ cr > 0
       /\ SubSeq(bytes, cr, cr + 3) = CRLF \o CRLF
       /\ IsLengthField(SubSeq(bytes, 1, cr - 1))
    THEN TakeContent(bytes, cr, LengthGiven(SubSeq(bytes, 1, cr - 1)))
    ELSE << <<"?">> >>

FramesWritten(bytes) ==
    IF bytes = <<>> THEN <<>> ELSE TakeFrame(bytes, find(bytes, CR))

\* The content of the frame of a response.
ContentOf(value) == to_string(to_value(value))

\* A step of the loop, seen from stdout.  A message is read only at the
\* read of the loop, with no response left to write, and the step writes
\* nothing.  Bytes are written only at the write of the loop, they are one
\* whole frame, the one of the response to the message of this turn, after
\* the frames written before, and no message is read in that step; stdout
\* then holds no more frames than messages were read.
OneTurnStep ==
    /\ turns' # turns
          => (pc = "read" /\ response = None /\ stdout' = stdout)
    /\ stdout' # stdout
          => /\ pc = "write"
             /\ response.some
             /\ turns' = turns
             /\ IsRequestMessage => serialize_Id(response.v.id) = MessageId
             /\ SubSeq(stdout', 1, Len(stdout)) = stdout
             /\ FramesWritten(SubSeq(stdout', Len(stdout) + 1, Len(stdout')))
                   = <<ContentOf(response.v)>>
             /\ Len(FramesWritten(stdout')) <= turns'
    /\ (pc = "write" /\ response.some) => stdout' # stdout

C23_OneTurnAtATime == [][OneTurnStep]_vars

\* Three messages were read, a request with id 7, a notification and a
\* request with id "q": stdout holds two frames, the answer to the first
\* request and then the answer to the second.
C23_Witness ==
    /\ pc = "read"
    /\ turns = 3
    /\ text_documents # NoDocuments
    /\ FramesWritten(stdout)
          = << ContentOf(ResponseMessage_error(AsInt(7), METHOD_NOT_FOUND,
                             "Unhandled request doesNotExist!")),
               ContentOf(ResponseMessage_error(AsString("q"), METHOD_NOT_FOUND,
                             "Unhandled request doesNotExist!")) >>

(***************************************************************************)
(* C24: the line buffer refines a flat string.  For every document, every  *)
(* range inside its bounds with start <= end and every replacement text,   *)
(* the lines after edit(range, text), joined by "\r\n", are the lines      *)
(* before it, joined by "\r\n", with the span between the flat offsets of  *)
(* range.start and range.end replaced by text.  A position is inside the   *)
(* bounds when its line exists and its offset is at most the length of     *)
(* that line, nothing more.                                                *)
(***************************************************************************)
\* Where the position is in the lines joined by "\r\n": the bytes before it.
RECURSIVE FlatOffset(_, _)
FlatOffset(ls, position) ==
    IF position.line = 0 THEN position.character
    ELSE Len(ls[1]) + 2
         + FlatOffset(Tail(ls), [position EXCEPT !.line = position.line - 1])

\* The flat string with the bytes from offset a up to offset b replaced.
ReplaceSpan(flat, a, b, text) ==
    SubSeq(flat, 1, a) \o text \o SubSeq(flat, b + 1, Len(flat))

C24_EditRefinesFlatString ==
    ( /\ call.op = "edit"
      /\ StartLeEnd(call.range)
      /\ InsideBounds(doc, call.range.start)
      /\ InsideBounds(doc, call.range.end) )
    => /\ ~outcome.panic
       /\ JoinLines(outcome.v)
             = ReplaceSpan(JoinLines(doc),
                           FlatOffset(doc, call.range.start),
                           FlatOffset(doc, call.range.end),
                           call.text)

(***************************************************************************)
(* C25: no stored line holds "\r\n".  It is so after open, and every       *)
(* erase, insert and edit with positions inside the bounds keeps it so,    *)
(* also when the text holds a lone "\r" or "\n"; hence the lines joined by *)
(* "\r\n" and split again are the same lines.                              *)
(***************************************************************************)
NoLineHoldsCRLF(ls) == \A j \in 1..Len(ls) : ~HoldsCRLF(ls[j])

\* The positions of the call are inside the bounds of the document, the
\* start of its range not after the end.
CallInBounds ==
    IF call.op = "insert" THEN InsideBounds(doc, call.position)
    ELSE /\ call.op \in {"erase", "edit"}
         /\ StartLeEnd(call.range)
         /\ InsideBounds(doc, call.range.start)
         /\ InsideBounds(doc, call.range.end)

C25_NoLineHoldsCRLF ==
    ( /\ NoLineHoldsCRLF(doc)
      /\ CallInBounds
      /\ ~outcome.panic )
    => /\ NoLineHoldsCRLF(outcome.v)
       /\ split(JoinLines(outcome.v)) = outcome.v
=============================================================================
